---- MODULE Spec2Model ----
(***************************************************************************)
(* ConversationNotificationBar (src/unnamed/part_000): the per-conversation*)
(* unread summaries ("participants") derived from the notification list,   *)
(* the socket handlers that refresh them, and the optimistic "open         *)
(* conversation" click with its mark-read request.                         *)
(*                                                                         *)
(* A render of the component is a closure over the values of               *)
(* notifications, user and clickingConversation at that render.  The       *)
(* socket effect (deps [socket]) keeps the closure of the render in which  *)
(* it last ran; an async click handler keeps the closure of the render in  *)
(* which the click happened.  Both are state of the model.                 *)
(***************************************************************************)
EXTENDS Integers, Sequences, FiniteSets, Bags, TLC

VARIABLES
    notifications,          \* useNotifications().notifications of the current render
    user,                   \* useUser().user of the current render
    socket,                 \* useSocket().socket of the current render
    sockClosure,            \* the processNotifications the registered socket handlers call
    participants,           \* useState<ConversationParticipant[]>
    clickingConversation,   \* useState<string | null>
    requests,               \* outstanding mark-read requests (a bag), each with the processNotifications of its click
    navigations,            \* router.push calls made by the handler that ran last
    last,                   \* the handler that ran last (history)
    mounted,                \* whether the ConversationNotificationBar is mounted
    listeners,              \* handlers the bar has registered with socket.on (a bag)
    navNotifications,       \* TopNavigation: useState<any[]> notifications
    unreadCount,            \* TopNavigation: useState(0) unreadCount
    navRequests,            \* TopNavigation: fetches awaiting their response (a bag)
    parsing                 \* TopNavigation: fetchNotifications waits at await response.json()

\* the registration of the bar's socket handlers
regVars == <<mounted, listeners>>

\* the state of TopNavigation (src/components/navigation/top-navigation.tsx)
navVars == <<navNotifications, unreadCount, navRequests, parsing>>

vars == <<notifications, user, socket, sockClosure, participants,
          clickingConversation, requests, navigations, last, regVars, navVars>>

----------------------------------------------------------------------------
(* JavaScript values *)

Undefined == "<undefined>"
Null == "<null>"

\* JS truthiness of a string-or-missing value: undefined, null and "" are falsy
Truthy(v) == v # Undefined /\ v # Null /\ v # ""

\* a || b
OrElse(a, b) == IF Truthy(a) THEN a ELSE b

NoConversation == [present |-> FALSE, type |-> Undefined, name |-> Undefined]
NoTriggeredBy == [present |-> FALSE, name |-> Undefined, imageUrl |-> Undefined]
NoUser == [present |-> FALSE, fullName |-> Undefined, firstName |-> Undefined]

Conv(t, nm) == [present |-> TRUE, type |-> t, name |-> nm]
By(nm) == [present |-> TRUE, name |-> nm, imageUrl |-> "img"]

Notif(ty, rd, cid, conv, by, pid) ==
    [id |-> 0, type |-> ty, read |-> rd, conversationId |-> cid, conversation |-> conv,
     triggeredBy |-> by, profileId |-> pid]

\* notification.conversation?.type
ConvType(n) == IF n.conversation.present THEN n.conversation.type ELSE Undefined
\* user?.fullName, user?.firstName
UserFullName(u) == IF u.present THEN u.fullName ELSE Undefined
UserFirstName(u) == IF u.present THEN u.firstName ELSE Undefined

----------------------------------------------------------------------------
(* processNotifications, part_000:60-104 *)

\* line 64: n.conversationId && !n.read && n.type === "MESSAGE"
PassesFilter_IgnoresRead(n) == Truthy(n.conversationId) /\ n.type = "MESSAGE"
PassesFilter(n) == Truthy(n.conversationId) /\ ~n.read /\ n.type = "MESSAGE"

\* line 69
IsGroup(n) == ConvType(n) = "GROUP_MESSAGE"

\* line 85: triggeredBy && triggeredBy.name !== user?.fullName && triggeredBy.name !== user?.firstName
DirectIncluded_FullNameOnly(n, u) ==
    n.triggeredBy.present /\ n.triggeredBy.name # UserFullName(u)
DirectIncluded(n, u) ==
    /\ n.triggeredBy.present
    /\ n.triggeredBy.name # UserFullName(u)
    /\ n.triggeredBy.name # UserFirstName(u)

\* lines 74-81
GroupParticipant_NoFallback(n) ==
    [conversationId |-> n.conversationId, profileId |-> "",
     name |-> n.conversation.name, imageUrl |-> "",
     unreadCount |-> 1, conversationType |-> "GROUP_MESSAGE"]
GroupParticipant(n) ==
    [conversationId |-> n.conversationId, profileId |-> "",
     name |-> OrElse(n.conversation.name, "Group Chat"), imageUrl |-> "",
     unreadCount |-> 1, conversationType |-> "GROUP_MESSAGE"]

\* lines 90-97
DirectParticipant(n) ==
    [conversationId |-> n.conversationId, profileId |-> n.profileId,
     name |-> n.triggeredBy.name, imageUrl |-> n.triggeredBy.imageUrl,
     unreadCount |-> 1, conversationType |-> "DIRECT_MESSAGE"]

\* conversationMap.get(conversationId): index of the entry in insertion order, 0 if none
MapIndex(map, cid) ==
    IF \E i \in 1..Len(map) : map[i].conversationId = cid
    THEN CHOOSE i \in 1..Len(map) : map[i].conversationId = cid
    ELSE 0

\* lines 70-82 / 86-98: existing.unreadCount += 1, else conversationMap.set(...)
MapAdd_AlwaysSet(map, entry) == Append(map, entry)
MapAdd_NoIncrement(map, entry) ==
    IF MapIndex(map, entry.conversationId) # 0 THEN map ELSE Append(map, entry)
MapAdd_Prepend(map, entry) ==
    LET i == MapIndex(map, entry.conversationId) IN
    IF i # 0
    THEN [map EXCEPT ![i].unreadCount = @ + 1]
    ELSE <<entry>> \o map
MapAdd(map, entry) ==
    LET i == MapIndex(map, entry.conversationId) IN
    IF i # 0
    THEN [map EXCEPT ![i].unreadCount = @ + 1]
    ELSE Append(map, entry)

\* lines 65-101: the forEach body
Visit(map, n, u) ==
    IF IsGroup(n) THEN MapAdd(map, GroupParticipant(n))
    ELSE IF DirectIncluded(n, u) THEN MapAdd(map, DirectParticipant(n))
    ELSE map

RECURSIVE Fold(_, _, _, _)
Fold(ns, u, i, map) ==
    IF i > Len(ns) THEN map
    ELSE Fold(ns, u, i + 1, IF PassesFilter(ns[i]) THEN Visit(map, ns[i], u) ELSE map)

\* the value handed to setParticipants at line 103
processNotifications(ns, u) == Fold(ns, u, 1, <<>>)

\* lines 40 and 118: prev.filter(p => p.conversationId !== conversationId)
RECURSIVE FilterOut(_, _)
FilterOut(prev, cid) ==
    IF prev = <<>> THEN <<>>
    ELSE IF Head(prev).conversationId # cid
         THEN <<Head(prev)>> \o FilterOut(Tail(prev), cid)
         ELSE FilterOut(Tail(prev), cid)

----------------------------------------------------------------------------
(* Values the inputs are drawn from *)

MaxLen == 3          \* longest notification list handed to processNotifications
MaxPending == 2      \* mark-read requests outstanding at one time

Alice == [present |-> TRUE, fullName |-> "Alice Smith", firstName |-> "Alice"]
BobNoFull == [present |-> TRUE, fullName |-> Null, firstName |-> "bob"]
Users == {NoUser, Alice, BobNoFull}

ConversationIds == {"c1", "c2"}

\* notification records, well-formed and partial
NotifPool ==
    { Notif("MESSAGE", FALSE, "c1", Conv("GROUP_MESSAGE", "Team"), By("bob"), "p1"),
      Notif("MESSAGE", FALSE, "c1", Conv("GROUP_MESSAGE", ""), NoTriggeredBy, "p1"),
      Notif("MESSAGE", FALSE, "c1", Conv("DIRECT_MESSAGE", Undefined), By("carol"), "p3"),
      Notif("MESSAGE", FALSE, "c2", Conv("DIRECT_MESSAGE", Undefined), By("bob"), "p1"),
      Notif("MESSAGE", FALSE, "c2", NoConversation, By("carol"), "p3"),
      Notif("MESSAGE", FALSE, "c2", Conv("DIRECT_MESSAGE", Undefined), By("Alice"), "p2"),
      Notif("MESSAGE", FALSE, "c2", Conv("DIRECT_MESSAGE", Undefined), By("Alice Smith"), "p2"),
      Notif("MESSAGE", FALSE, "c2", Conv("DIRECT_MESSAGE", Undefined), NoTriggeredBy, "p1"),
      Notif("MESSAGE", TRUE, "c1", Conv("GROUP_MESSAGE", "Team"), By("bob"), "p1"),
      Notif("MENTION", FALSE, "c1", Conv("GROUP_MESSAGE", "Team"), By("bob"), "p1"),
      Notif("MESSAGE", FALSE, Undefined, NoConversation, By("bob"), "p1"),
      Notif("MESSAGE", FALSE, "", Conv("DIRECT_MESSAGE", Undefined), By("bob"), "p1"),
      Notif("MESSAGE", FALSE, "c2", Conv("GROUP_MESSAGE", Undefined), By("carol"), "p3") }

SeqsUpTo(S, n) == UNION { [1..k -> S] : k \in 0..n }

\* Notification.id is unique in a list
WithIds(ns) == [i \in 1..Len(ns) |-> [ns[i] EXCEPT !.id = i]]

NoSocket == "<no socket>"
Event(op, cid, outcome) == [op |-> op, cid |-> cid, outcome |-> outcome]

\* The processNotifications function of one render (line 60).  It takes no
\* argument and reads only the notifications and user of its render, which
\* never change, so it is represented by the value it hands to setParticipants.
Closure(ns, u) == [result |-> processNotifications(ns, u)]
NoClosure == Closure(<<>>, NoUser)

----------------------------------------------------------------------------
(* The component mounted with a given notification list and user: the      *)
(* effect of lines 107-109 runs processNotifications once.                 *)

InitRebuild ==
    /\ mounted = TRUE
    /\ listeners = EmptyBag
    /\ navNotifications = <<>>
    /\ unreadCount = 0
    /\ navRequests = EmptyBag
    /\ parsing = FALSE
    /\ notifications \in { WithIds(ns) : ns \in SeqsUpTo(NotifPool, MaxLen) }
    /\ user \in Users
    /\ socket = NoSocket
    /\ sockClosure = NoClosure
    /\ participants = <<>>
    /\ clickingConversation = Null
    /\ requests = EmptyBag
    /\ navigations = <<>>
    /\ last = Event("init", Undefined, Undefined)

MountEffect ==
    /\ last.op = "init"
    /\ participants' = processNotifications(notifications, user)
    /\ last' = Event("rebuild", Undefined, Undefined)
    /\ UNCHANGED <<regVars, navVars>>
    /\ UNCHANGED <<notifications, user, socket, sockClosure,
                   clickingConversation, requests, navigations>>

NextRebuild == MountEffect

SpecRebuild == InitRebuild /\ [][NextRebuild]_vars

----------------------------------------------------------------------------
(* Properties of processNotifications *)

Ids(ps) == { ps[i].conversationId : i \in 1..Len(ps) }

RemoveAt(s, i) == SubSeq(s, 1, i - 1) \o SubSeq(s, i + 1, Len(s))

\* C1: the rebuilt summary set has no two summaries with the same
\* conversationId, and every summary has unreadCount >= 1.
C1_UniqueAndPositive ==
    last.op = "rebuild" =>
        /\ \A i, j \in 1..Len(participants) :
              participants[i].conversationId = participants[j].conversationId => i = j
        /\ \A i \in 1..Len(participants) : participants[i].unreadCount >= 1

C1_Witness ==
    /\ last.op = "rebuild"
    /\ Len(participants) = 2
    /\ \E i \in 1..2 : participants[i].unreadCount = 2

\* a notification the claim C2 calls excluded: wrong type, read, or no conversationId
Excluded(n) ==
    n.type # "MESSAGE" \/ n.read \/ n.conversationId \in {Undefined, Null}

NotExcluded(n) == ~Excluded(n)

\* C2: removing every notification that is not MESSAGE, or is read, or has no
\* conversationId leaves the output of the rebuild unchanged.
C2_ExcludedNeverContribute ==
    last.op = "rebuild" =>
        participants = processNotifications(SelectSeq(notifications, NotExcluded), user)

C2_Witness ==
    /\ last.op = "rebuild"
    /\ \E i, j, k \in 1..Len(notifications) :
          /\ notifications[i].read /\ notifications[i].conversationId = "c1"
          /\ notifications[j].type # "MESSAGE"
          /\ notifications[k].conversationId = Undefined
    /\ participants = <<>>

\* the notifications of conversation c that count towards its summary
Qualifying(ns, u, c) ==
    { i \in 1..Len(ns) :
        /\ ns[i].conversationId = c
        /\ ~ns[i].read
        /\ ns[i].type = "MESSAGE"
        /\ (ns[i].conversation.present /\ ns[i].conversation.type = "GROUP_MESSAGE")
           \/ DirectIncluded(ns[i], u) }

\* C3: the unreadCount of the summary of a conversation is the number of its
\* qualifying notifications (unread, MESSAGE, and group or passing the
\* direct-message test); a conversation with none has no summary.
C3_CountIsNumberQualifying ==
    last.op = "rebuild" =>
        \A c \in ConversationIds :
            LET k == Cardinality(Qualifying(notifications, user, c))
                S == { i \in 1..Len(participants) : participants[i].conversationId = c }
            IN  IF k = 0 THEN S = {}
                ELSE /\ Cardinality(S) = 1
                     /\ \A i \in S : participants[i].unreadCount = k

C3_Witness ==
    /\ last.op = "rebuild"
    /\ Len(notifications) = 3
    /\ \A i \in 1..3 : /\ notifications[i].conversationId = "c1"
                       /\ IsGroup(notifications[i])
                       /\ PassesFilter(notifications[i])
    /\ Len(participants) = 1
    /\ participants[1].unreadCount = 3

\* an unread direct MESSAGE sent under the current user's own name
SelfAuthored(n, u) ==
    /\ ~n.read
    /\ n.type = "MESSAGE"
    /\ ~(n.conversation.present /\ n.conversation.type = "GROUP_MESSAGE")
    /\ n.triggeredBy.present
    /\ n.triggeredBy.name = UserFirstName(u) \/ n.triggeredBy.name = UserFullName(u)

\* C4: an unread MESSAGE notification of a non-group conversation whose
\* triggeredBy.name is the current user's firstName or fullName creates no
\* summary and adds to no unreadCount: the rebuild is the same without it.
C4_SelfNotificationSuppressed ==
    last.op = "rebuild" =>
        \A i \in 1..Len(notifications) :
            SelfAuthored(notifications[i], user) =>
                participants = processNotifications(RemoveAt(notifications, i), user)

C4_Witness ==
    /\ last.op = "rebuild"
    /\ user = Alice
    /\ \E i, j, k \in 1..Len(notifications) :
          /\ notifications[i].conversationId = "c2"
          /\ SelfAuthored(notifications[i], user)
          /\ notifications[i].triggeredBy.name = "Alice"
          /\ notifications[j].conversationId = "c2"
          /\ SelfAuthored(notifications[j], user)
          /\ notifications[j].triggeredBy.name = "Alice Smith"
          /\ notifications[k].conversationId = "c2"
          /\ notifications[k].triggeredBy.present
          /\ notifications[k].triggeredBy.name = "bob"
    /\ Len(participants) = 1
    /\ participants[1].unreadCount = 1

\* the first notification of conversation c that counts towards its summary
FirstQualifying(ns, u, c) ==
    CHOOSE i \in Qualifying(ns, u, c) : \A j \in Qualifying(ns, u, c) : i <= j

\* C13: the summaries are in the order in which their conversationId first
\* occurs among the qualifying notifications of the list (the output is a
\* function of the list and the user alone).
C13_FirstOccurrenceOrder ==
    last.op = "rebuild" =>
        \A i, j \in 1..Len(participants) :
            i < j =>
                FirstQualifying(notifications, user, participants[i].conversationId)
                    < FirstQualifying(notifications, user, participants[j].conversationId)

C13_Witness ==
    /\ last.op = "rebuild"
    /\ Len(notifications) = 3
    /\ notifications[1].conversationId = "c2"
    /\ notifications[2].conversationId = "c1"
    /\ notifications[3].conversationId = "c2"
    /\ Len(participants) = 2
    /\ participants[1].conversationId = "c2"
    /\ participants[1].unreadCount = 2
    /\ participants[2].conversationId = "c1"

\* an unread MESSAGE notification of a conversation that is not a group and
\* has no triggeredBy
DirectWithoutSender(n) ==
    /\ ~n.read
    /\ n.type = "MESSAGE"
    /\ ~(n.conversation.present /\ n.conversation.type = "GROUP_MESSAGE")
    /\ ~n.triggeredBy.present

\* C15: an unread non-group MESSAGE notification without triggeredBy is left
\* out and the rest is aggregated as if it were absent; a group summary made
\* from a notification whose conversation name is absent or empty is named
\* "Group Chat".
C15_PartialRecordsTolerated ==
    last.op = "rebuild" =>
        /\ \A i \in 1..Len(notifications) :
              DirectWithoutSender(notifications[i]) =>
                  participants = processNotifications(RemoveAt(notifications, i), user)
        /\ \A k \in 1..Len(participants) :
              participants[k].conversationType = "GROUP_MESSAGE" =>
                  LET n == notifications[FirstQualifying(notifications, user,
                                                         participants[k].conversationId)]
                  IN  IF n.conversation.name \in {Undefined, Null, ""}
                      THEN participants[k].name = "Group Chat"
                      ELSE participants[k].name = n.conversation.name

C15_Witness ==
    /\ last.op = "rebuild"
    /\ Len(notifications) = 3
    /\ DirectWithoutSender(notifications[1])
    /\ notifications[1].conversationId = "c2"
    /\ IsGroup(notifications[2])
    /\ notifications[2].conversation.name = ""
    /\ notifications[3].conversationId = "c2"
    /\ Len(participants) = 2
    /\ participants[1].name = "Group Chat"
    /\ participants[2].conversationId = "c2"
    /\ participants[2].unreadCount = 1

----------------------------------------------------------------------------
(* The running component *)

\* the user of the running component: not loaded yet, or loaded
RunUsers == {NoUser, Alice}

Sockets == {NoSocket, "s1"}

\* the notifications the hook delivers while the component runs
RunPool ==
    { [Notif("MESSAGE", FALSE, "c1", Conv("GROUP_MESSAGE", "Team"), By("bob"), "p1")
          EXCEPT !.id = 1],
      [Notif("MESSAGE", FALSE, "c2", Conv("DIRECT_MESSAGE", Undefined), By("Alice"), "p2")
          EXCEPT !.id = 2] }

\* fetch settles: response.ok, a response with !response.ok, or a rejected promise
Outcomes == {"ok", "status", "network"}

\* an outstanding request of handleConversationClick(cid), suspended at the await
Request(cid, closure) == [cid |-> cid, closure |-> closure]

Init ==
    /\ mounted = TRUE
    /\ listeners = EmptyBag
    /\ navNotifications = <<>>
    /\ unreadCount = 0
    /\ navRequests = EmptyBag
    /\ parsing = FALSE
    /\ notifications = <<>>
    /\ user = NoUser
    /\ socket = NoSocket
    /\ sockClosure = NoClosure
    /\ participants = <<>>
    /\ clickingConversation = Null
    /\ requests = EmptyBag
    /\ navigations = <<>>
    /\ last = Event("init", Undefined, Undefined)

\* lines 106-109: a render with a new notifications or user value runs the effect,
\* whose processNotifications is the one of that render
ListEffect(ns) ==
    /\ ns # notifications
    /\ notifications' = ns
    /\ participants' = processNotifications(ns, user)
    /\ navigations' = <<>>
    /\ last' = Event("list", Undefined, Undefined)
    /\ UNCHANGED <<regVars, navVars>>
    /\ UNCHANGED <<user, socket, sockClosure, clickingConversation, requests>>

\* useNotifications: a notification is put at the head of the list
NotificationAdded ==
    \E n \in RunPool :
        /\ \A i \in 1..Len(notifications) : notifications[i].id # n.id
        /\ ListEffect(<<n>> \o notifications)

\* useNotifications: the notifications of a conversation become read
NotificationsRead ==
    \E c \in ConversationIds :
        ListEffect([i \in 1..Len(notifications) |->
                      IF notifications[i].conversationId = c
                      THEN [notifications[i] EXCEPT !.read = TRUE]
                      ELSE notifications[i]])

\* useNotifications: a notification leaves the list
NotificationRemoved ==
    \E i \in 1..Len(notifications) : ListEffect(RemoveAt(notifications, i))

\* useUser: the user value changes; the effect of lines 106-109 runs
UserChanged ==
    \E u \in RunUsers :
        /\ u # user
        /\ user' = u
        /\ participants' = processNotifications(notifications, u)
        /\ navigations' = <<>>
        /\ last' = Event("user", Undefined, Undefined)
        /\ UNCHANGED <<regVars, navVars>>
        /\ UNCHANGED <<notifications, socket, sockClosure, clickingConversation, requests>>

\* the events the bar listens to, lines 48-50
BarEvents == {"notification:new", "conversation:marked-as-read", "notification:update"}

Registration(s) == SetToBag({ [socket |-> s, event |-> e] : e \in BarEvents })

\* lines 31 and 48-50: socket.on for each event, unless there is no socket
Register(ls, s) == IF s = NoSocket THEN ls ELSE ls (+) Registration(s)

\* lines 52-56: the cleanup the effect returned (none when it returned at line 31)
\* calls socket.off, on the socket of its effect, for each handler
Cleanup_None(ls, s) == ls
Cleanup(ls, s) == IF s = NoSocket THEN ls ELSE ls (-) Registration(s)

\* lines 30-57: the socket value changes to s; the effect's cleanup removes the
\* old handlers and the effect registers handlers made in the current render
SocketEffect(s) ==
    /\ mounted
    /\ s # socket
    /\ socket' = s
    /\ sockClosure' = IF s = NoSocket THEN NoClosure ELSE Closure(notifications, user)
    /\ navigations' = <<>>
    /\ last' = Event("socket", Undefined, Undefined)
    /\ listeners' = Register(Cleanup(listeners, socket), s)
    /\ UNCHANGED <<mounted, navVars>>
    /\ UNCHANGED <<notifications, user, participants, clickingConversation, requests>>

SocketChanged == \E s \in Sockets : SocketEffect(s)

\* lines 35, 45 and 137: processNotifications() called from a handler is the
\* function of the render the handler was made in
HandlerRebuild(closure) == closure.result

\* lines 33-36
handleNewNotification ==
    /\ socket # NoSocket
    /\ participants' = HandlerRebuild(sockClosure)
    /\ navigations' = <<>>
    /\ last' = Event("notification:new", Undefined, Undefined)
    /\ UNCHANGED <<regVars, navVars>>
    /\ UNCHANGED <<notifications, user, socket, sockClosure, clickingConversation, requests>>

\* lines 43-46
handleNotificationUpdate ==
    /\ socket # NoSocket
    /\ participants' = HandlerRebuild(sockClosure)
    /\ navigations' = <<>>
    /\ last' = Event("notification:update", Undefined, Undefined)
    /\ UNCHANGED <<regVars, navVars>>
    /\ UNCHANGED <<notifications, user, socket, sockClosure, clickingConversation, requests>>

\* line 40
MarkReadParticipants_Clear(prev, cid) == <<>>
MarkReadParticipants(prev, cid) == FilterOut(prev, cid)

\* lines 38-41
handleConversationMarkRead ==
    \E c \in ConversationIds :
        /\ socket # NoSocket
        /\ participants' = MarkReadParticipants(participants, c)
        /\ navigations' = <<>>
        /\ last' = Event("conversation:marked-as-read", c, Undefined)
        /\ UNCHANGED <<regVars, navVars>>
        /\ UNCHANGED <<notifications, user, socket, sockClosure, clickingConversation, requests>>

\* line 113
GuardBlocks(clicking, cid) == clicking = cid

\* line 118
ClickParticipants(prev, cid) == FilterOut(prev, cid)

\* lines 111-126, up to the await: the button of a displayed summary is clicked
handleConversationClick ==
    \E c \in Ids(participants) :
        /\ ~GuardBlocks(clickingConversation, c)
        /\ BagCardinality(requests) < MaxPending
        /\ clickingConversation' = c
        /\ participants' = ClickParticipants(participants, c)
        /\ requests' = requests (+) SetToBag({Request(c, Closure(notifications, user))})
        /\ navigations' = <<>>
        /\ last' = Event("open", c, Undefined)
        /\ UNCHANGED <<regVars, navVars>>
        /\ UNCHANGED <<notifications, user, socket, sockClosure>>

\* line 113: the early return
handleConversationClickSuppressed ==
    \E c \in Ids(participants) :
        /\ GuardBlocks(clickingConversation, c)
        /\ navigations' = <<>>
        /\ last' = Event("suppressed", c, Undefined)
        /\ UNCHANGED <<regVars, navVars>>
        /\ UNCHANGED <<notifications, user, socket, sockClosure, participants,
                       clickingConversation, requests>>

\* lines 122-130: fetch rejects, or the response is not ok
Throws_NoStatusCheck(outcome) == outcome = "network"
Throws(outcome) == outcome = "network" \/ outcome # "ok"

\* lines 134-137
CatchParticipants_NoRevert(prev, req) == prev
CatchParticipants(prev, req) == HandlerRebuild(req.closure)

\* lines 138-140: finally
FinallyGuard_OnlyOnSuccess(clicking, outcome) == IF outcome = "ok" THEN Null ELSE clicking
FinallyGuard(clicking, outcome) == Null

\* lines 127-140: the request of a click settles and the handler runs to its end
RequestSettles ==
    \E req \in BagToSet(requests), outcome \in Outcomes :
        /\ IF Throws(outcome)
           THEN /\ participants' = CatchParticipants(participants, req)
                /\ navigations' = <<>>
           ELSE /\ navigations' = <<req.cid>>
                /\ UNCHANGED participants
        /\ clickingConversation' = FinallyGuard(clickingConversation, outcome)
        /\ requests' = requests (-) SetToBag({req})
        /\ last' = Event("settled", req.cid, outcome)
        /\ UNCHANGED <<regVars, navVars>>
        /\ UNCHANGED <<notifications, user, socket, sockClosure>>

Next ==
    \/ NotificationAdded
    \/ NotificationsRead
    \/ NotificationRemoved
    \/ UserChanged
    \/ SocketChanged
    \/ handleNewNotification
    \/ handleNotificationUpdate
    \/ handleConversationMarkRead
    \/ handleConversationClick
    \/ handleConversationClickSuppressed
    \/ RequestSettles

Spec == Init /\ [][Next]_vars

\* The component without a socket (useSocket() gives null, line 31: no handler
\* is registered), every issued mark-read request settling in the end: fetch
\* resolves or rejects.
NextNoSocket ==
    \/ NotificationAdded
    \/ NotificationsRead
    \/ NotificationRemoved
    \/ UserChanged
    \/ handleConversationClick
    \/ handleConversationClickSuppressed
    \/ RequestSettles

SpecSettling == Init /\ [][NextNoSocket]_vars /\ WF_vars(RequestSettles)

----------------------------------------------------------------------------
(* Mounting and unmounting the bar under a socket provider whose socket    *)
(* object changes                                                          *)

SocketObjects == {NoSocket, "s1", "s2"}

\* the bar is mounted: useState initial values (lines 26-27), then the effects
\* of lines 30-57 and 106-109 run
Mount ==
    /\ ~mounted
    /\ mounted' = TRUE
    /\ listeners' = Register(listeners, socket)
    /\ sockClosure' = IF socket = NoSocket THEN NoClosure ELSE Closure(notifications, user)
    /\ participants' = processNotifications(notifications, user)
    /\ clickingConversation' = Null
    /\ navigations' = <<>>
    /\ last' = Event("mount", Undefined, Undefined)
    /\ UNCHANGED <<notifications, user, socket, requests, navVars>>

\* the bar is unmounted: the cleanup of lines 52-56 runs, the state is dropped
Unmount ==
    /\ mounted
    /\ mounted' = FALSE
    /\ listeners' = Cleanup(listeners, socket)
    /\ sockClosure' = NoClosure
    /\ participants' = <<>>
    /\ clickingConversation' = Null
    /\ navigations' = <<>>
    /\ last' = Event("unmount", Undefined, Undefined)
    /\ UNCHANGED <<notifications, user, socket, requests, navVars>>

\* the provider hands out another socket object (or none)
SocketReplaced ==
    \E s \in SocketObjects :
        IF mounted
        THEN SocketEffect(s)
        ELSE /\ s # socket
             /\ socket' = s
             /\ navigations' = <<>>
             /\ last' = Event("socket", Undefined, Undefined)
             /\ UNCHANGED <<notifications, user, sockClosure, participants,
                            clickingConversation, requests, regVars, navVars>>

\* socket.io calls the handlers registered for event e
Delivered(e) == \E reg \in BagToSet(listeners) : reg.event = e

NextMount ==
    \/ Mount
    \/ Unmount
    \/ SocketReplaced
    \/ (mounted /\ NotificationAdded)
    \/ (mounted /\ UserChanged)
    \/ (Delivered("notification:new") /\ handleNewNotification)
    \/ (Delivered("notification:update") /\ handleNotificationUpdate)
    \/ (Delivered("conversation:marked-as-read") /\ handleConversationMarkRead)

SpecMount == Init /\ [][NextMount]_vars

----------------------------------------------------------------------------
(* TopNavigation: the notification list and the unread badge               *)
(* (src/components/navigation/top-navigation.tsx)                          *)

NavIds == {"n1", "n2", "n3"}
NavNotif(id, read) == [id |-> id, read |-> read]

\* the number of notifications of a list whose read flag is false
Unread(l) == Cardinality({ i \in 1..Len(l) : ~l[i].read })

NavListIds(l) == { l[i].id : i \in 1..Len(l) }

\* the lists GET /api/notifications answers with
NavLists ==
    {<<>>}
    \cup { <<NavNotif(i, r)>> : i \in NavIds, r \in BOOLEAN }
    \cup { <<NavNotif(i, r), NavNotif(j, q)>> :
             i \in {"n1"}, j \in {"n2", "n3"}, r \in BOOLEAN, q \in BOOLEAN }

\* a response body whose unreadCount is the number of unread entries of its list
Response(l) ==
    [notifications |-> [present |-> TRUE, value |-> l],
     unreadCount   |-> [present |-> TRUE, value |-> Unread(l)]]
EmptyResponse ==
    [notifications |-> [present |-> FALSE, value |-> <<>>],
     unreadCount   |-> [present |-> FALSE, value |-> 0]]
ServerResponses == { Response(l) : l \in NavLists } \cup {EmptyResponse}

\* data.notifications || []
FetchedNotifications(data) ==
    IF data.notifications.present THEN data.notifications.value ELSE <<>>
\* data.unreadCount || 0
FetchedUnreadCount(data) ==
    IF data.unreadCount.present /\ data.unreadCount.value # 0
    THEN data.unreadCount.value ELSE 0

\* Math.max(0, a)
Max0(a) == IF a > 0 THEN a ELSE 0

\* a request of the navigation bar, suspended at its await
NavRequest(kind, id) == [kind |-> kind, id |-> id]

\* await fetch(...) rejects on a network error only; these callers do not
\* look at response.ok
AwaitRejects(outcome) == outcome = "network"

\* the bar of the conversations is not on the page; the mount effect of
\* lines 81-96 has called fetchNotifications, which waits for its response
InitNav ==
    /\ mounted = FALSE
    /\ listeners = EmptyBag
    /\ navNotifications = <<>>
    /\ unreadCount = 0
    /\ navRequests = SetToBag({NavRequest("fetch", Undefined)})
    /\ parsing = FALSE
    /\ notifications = <<>>
    /\ user = NoUser
    /\ socket = NoSocket
    /\ sockClosure = NoClosure
    /\ participants = <<>>
    /\ clickingConversation = Null
    /\ requests = EmptyBag
    /\ navigations = <<>>
    /\ last = Event("init", Undefined, Undefined)

barVars == <<notifications, user, sockClosure, participants,
             clickingConversation, requests, navigations, regVars>>

\* the socket of the provider changes; the effect of lines 99-126 moves the
\* listener to it
NavSocketChanged ==
    \E s \in Sockets :
        /\ s # socket
        /\ socket' = s
        /\ last' = Event("socket", Undefined, Undefined)
        /\ UNCHANGED <<barVars, navVars>>

\* the response of GET /api/notifications arrives or the request fails:
\* fetchNotifications resumes after await fetch (line 84) and, when
\* response.ok, waits again at await response.json() (lines 85-86)
fetchNotifications ==
    \E outcome \in Outcomes :
        LET req == NavRequest("fetch", Undefined) IN
        /\ BagIn(req, navRequests)
        /\ navRequests' = navRequests (-) SetToBag({req})
        /\ parsing' = (outcome = "ok")
        /\ last' = Event("fetch", Undefined, outcome)
        /\ UNCHANGED <<socket, barVars, navNotifications, unreadCount>>

\* response.json() resolves with the body, or rejects: fetchNotifications
\* resumes after its second await (lines 86-92)
fetchNotificationsParsed ==
    \E rejected \in BOOLEAN, data \in ServerResponses :
        /\ parsing
        /\ parsing' = FALSE
        /\ IF rejected
           THEN UNCHANGED <<navNotifications, unreadCount>>
           ELSE /\ navNotifications' = FetchedNotifications(data)
                /\ unreadCount' = FetchedUnreadCount(data)
        /\ last' = Event("fetch:json", Undefined, IF rejected THEN "network" ELSE "ok")
        /\ UNCHANGED <<socket, barVars, navRequests>>

\* the handler of "notification:new" of the navigation bar (lines 102-105)
navHandleNewNotification ==
    \E id \in NavIds \ NavListIds(navNotifications) :
        /\ socket # NoSocket
        /\ Len(navNotifications) < MaxLen
        /\ navNotifications' = <<NavNotif(id, FALSE)>> \o navNotifications
        /\ unreadCount' = unreadCount + 1
        /\ last' = Event("notification:new", id, Undefined)
        /\ UNCHANGED <<socket, barVars, navRequests, parsing>>

\* markAsRead(id) called for a notification of the list: up to its await
markAsRead ==
    \E id \in NavListIds(navNotifications) :
        /\ BagCardinality(navRequests) < MaxPending
        /\ navRequests' = navRequests (+) SetToBag({NavRequest("markAsRead", id)})
        /\ last' = Event("markAsRead:call", id, Undefined)
        /\ UNCHANGED <<socket, barVars, navNotifications, unreadCount, parsing>>

MarkOneRead(l, id) ==
    [ i \in 1..Len(l) |-> IF l[i].id = id THEN [l[i] EXCEPT !.read = TRUE] ELSE l[i] ]

\* markAsRead(id) resumes after its await (lines 203-211)
markAsReadResumes ==
    \E req \in BagToSet(navRequests), outcome \in Outcomes :
        /\ req.kind = "markAsRead"
        /\ navRequests' = navRequests (-) SetToBag({req})
        /\ IF AwaitRejects(outcome)
           THEN UNCHANGED <<navNotifications, unreadCount>>
           ELSE /\ navNotifications' = MarkOneRead(navNotifications, req.id)
                /\ unreadCount' = Max0(unreadCount - 1)
        /\ last' = Event("markAsRead", req.id, outcome)
        /\ UNCHANGED <<socket, barVars, parsing>>

\* "Mark all as read" is rendered while unreadCount > 0 (lines 273-282);
\* markAllAsRead runs up to its await
markAllAsRead ==
    /\ unreadCount > 0
    /\ BagCardinality(navRequests) < MaxPending
    /\ navRequests' = navRequests (+) SetToBag({NavRequest("markAllAsRead", Undefined)})
    /\ last' = Event("markAllAsRead:call", Undefined, Undefined)
    /\ UNCHANGED <<socket, barVars, navNotifications, unreadCount, parsing>>

MarkAllRead(l) == [ i \in 1..Len(l) |-> [l[i] EXCEPT !.read = TRUE] ]

\* markAllAsRead resumes after its await (lines 220-224)
markAllAsReadResumes ==
    \E outcome \in Outcomes :
        LET req == NavRequest("markAllAsRead", Undefined) IN
        /\ BagIn(req, navRequests)
        /\ navRequests' = navRequests (-) SetToBag({req})
        /\ IF AwaitRejects(outcome)
           THEN UNCHANGED <<navNotifications, unreadCount>>
           ELSE /\ navNotifications' = MarkAllRead(navNotifications)
                /\ unreadCount' = 0
        /\ last' = Event("markAllAsRead", Undefined, outcome)
        /\ UNCHANGED <<socket, barVars, parsing>>

NextNav ==
    \/ NavSocketChanged
    \/ fetchNotifications
    \/ fetchNotificationsParsed
    \/ navHandleNewNotification
    \/ markAsRead
    \/ markAsReadResumes
    \/ markAllAsRead
    \/ markAllAsReadResumes

SpecTopNav == InitNav /\ [][NextNav]_vars

----------------------------------------------------------------------------
(* Properties of the running component *)

\* the number of outstanding mark-read requests for conversation c
PendingFor(reqs, c) ==
    BagCardinality([req \in { q \in BagToSet(reqs) : q.cid = c } |-> CopiesIn(req, reqs)])

Failed(e) == e.op = "settled" /\ e.outcome \in {"status", "network"}

\* C5: an open of c removes the summary of c at once, with the request still
\* outstanding; when that request then fails with no other handler run in
\* between, the summaries are processNotifications of the (unchanged) list and user.
C5_OptimisticRemovalAndRevert ==
    [][ /\ last'.op = "open" =>
              /\ last'.cid \notin Ids(participants')
              /\ PendingFor(requests', last'.cid) >= 1
        /\ ( /\ last.op = "open"
             /\ PendingFor(requests, last.cid) = 1
             /\ Failed(last')
             /\ last'.cid = last.cid ) =>
              participants' = processNotifications(notifications, user)
      ]_vars

C5_Witness ==
    /\ Failed(last)
    /\ last.cid \in Ids(participants)
    /\ Len(participants) = 2
    /\ participants = processNotifications(notifications, user)
    /\ requests = EmptyBag

\* C6: no two mark-read requests for the same conversationId are outstanding
\* at the same time.
C6_OneOutstandingPerConversation ==
    \A c \in ConversationIds : PendingFor(requests, c) <= 1

\* conversation c has an unread, conversation-scoped MESSAGE notification in ns
HasUnreadMessage(ns, c) ==
    \E i \in 1..Len(ns) :
        ns[i].conversationId = c /\ ~ns[i].read /\ ns[i].type = "MESSAGE"

\* the handlers that end by calling processNotifications
Rebuilt(e) ==
    e.op \in {"list", "user", "notification:new", "notification:update"} \/ Failed(e)

\* C7: every summary a rebuild produces is of a conversation with an unread,
\* conversation-scoped MESSAGE notification in the current notification list.
C7_SummariesHaveUnread ==
    Rebuilt(last) =>
        \A c \in Ids(participants) : HasUnreadMessage(notifications, c)

\* C8: after a notification:new or notification:update signal, and after a
\* change of the list or of the user, the summaries are the rebuild of the
\* current notification list and the current user.
C8_RebuildFromCurrent ==
    last.op \in {"list", "user", "notification:new", "notification:update"} =>
        participants = processNotifications(notifications, user)

\* C9: conversation:marked-as-read for c removes exactly the summaries of c and
\* keeps the others, their unreadCount and their order; it leaves the set alone
\* when c has no summary, and a second signal for c changes nothing.
C9_MarkedReadRemovesOnlyThat ==
    [][ last'.op = "conversation:marked-as-read" =>
          LET c == last'.cid
              Keep(p) == p.conversationId # c
          IN  /\ participants' = SelectSeq(participants, Keep)
              /\ c \notin Ids(participants) => participants' = participants
              /\ (last.op = "conversation:marked-as-read" /\ last.cid = c) =>
                    participants' = participants
              /\ UNCHANGED <<notifications, user, requests, clickingConversation>>
      ]_vars

C9_Witness ==
    /\ last.op = "conversation:marked-as-read"
    /\ last.cid = "c1"
    /\ Ids(participants) = {"c2"}
    /\ Ids(processNotifications(notifications, user)) = {"c1", "c2"}

\* C10: router.push(c) is called only by the completion of a mark-read request
\* for c that returned a success status, once; a request that fails by network
\* error or by status navigates nowhere.
C10_NavigateOnlyAfterSuccess ==
    /\ navigations # <<>> =>
          /\ last.op = "settled"
          /\ last.outcome = "ok"
          /\ navigations = <<last.cid>>
    /\ Failed(last) => navigations = <<>>

C10_Witness ==
    /\ last.op = "settled"
    /\ last.outcome = "ok"
    /\ navigations = <<"c1">>
    /\ clickingConversation = Null

\* C11: when a mark-read request fails, the summaries become the rebuild of the
\* notification list and user current at that time, whatever happened while
\* the request was outstanding.
C11_RecoveryFromLatest ==
    Failed(last) => participants = processNotifications(notifications, user)

\* C14: while a mark-read request for c is outstanding the click guard blocks
\* c, whatever other conversation is opened or settles meanwhile.
C14_GuardHeldPerConversation ==
    \A c \in ConversationIds :
        PendingFor(requests, c) >= 1 => GuardBlocks(clickingConversation, c)

\* the handler that ran last removed the summary of c for good: a
\* conversation:marked-as-read signal for c, or the success of an open of c
RemovedBy(e, c) ==
    /\ e.cid = c
    /\ e.op = "conversation:marked-as-read" \/ (e.op = "settled" /\ e.outcome = "ok")

\* this step puts a notification of conversation c into the list
AddsNotificationFor(c) ==
    \E i \in 1..Len(notifications') :
        /\ notifications'[i].conversationId = c
        /\ \A j \in 1..Len(notifications) : notifications[j].id # notifications'[i].id

\* C17: once the summary of c is gone after a conversation:marked-as-read
\* signal or a successful open of c, the next handler brings it back only if
\* it adds a notification of c to the list.
C17_NoReappearanceWithoutNewNotification ==
    [][ \A c \in ConversationIds :
          ( RemovedBy(last, c) /\ c \notin Ids(participants) /\ c \in Ids(participants') )
              => AddsNotificationFor(c)
      ]_vars

\* C12: when every request settles, a set click guard is cleared again, on
\* success and on failure; with no request outstanding the guard blocks no
\* displayed summary.
C12_GuardEventuallyCleared ==
    /\ [](requests = EmptyBag =>
            \A c \in Ids(participants) : ~GuardBlocks(clickingConversation, c))
    /\ (clickingConversation # Null) ~> (clickingConversation = Null)

C12_Witness ==
    /\ Failed(last)
    /\ requests = EmptyBag
    /\ clickingConversation = Null
    /\ last.cid \in Ids(participants)

\* C16: every handler the bar has registered is registered once, on the
\* current socket, while the bar is mounted: at most one per event, none left
\* on a previous socket, none after unmount.
C16_OneRegistrationOnCurrentSocket ==
    /\ \A reg \in BagToSet(listeners) :
          /\ CopiesIn(reg, listeners) = 1
          /\ reg.socket = socket
          /\ mounted
    /\ (mounted /\ socket # NoSocket) =>
          \A e \in BarEvents : CopiesIn([socket |-> socket, event |-> e], listeners) = 1

C16_Witness ==
    /\ mounted
    /\ socket = "s2"
    /\ last.op = "notification:new"
    /\ BagCardinality(listeners) = 3
    /\ participants # <<>>

\* a mark-read request of the navigation bar resumes after a failure
MarkFailed ==
    /\ last'.op \in {"markAsRead", "markAllAsRead"}
    /\ last'.outcome \in {"status", "network"}
    /\ navRequests' # navRequests

\* C18: markAsRead(id) and markAllAsRead change the local state only when the
\* request succeeded: after a network error or a non-success status the read
\* flags of the list and unreadCount are as they were.
C18_FailedMarkChangesNothing ==
    [][ MarkFailed =>
          /\ navNotifications' = navNotifications
          /\ unreadCount' = unreadCount ]_vars

\* C19: the badge is never negative and is the number of notifications of the
\* local list whose read flag is false.
C19_BadgeIsUnreadNumber ==
    /\ unreadCount >= 0
    /\ unreadCount = Unread(navNotifications)

====
